---------------------------- MODULE Spec2Model ----------------------------
(***************************************************************************)
(* bubble-bath: an allow-list HTML sanitizer built on the lol_html         *)
(* streaming rewriter (src/src/lib.rs).                                    *)
(*                                                                         *)
(* Bytes are one-character strings and byte strings are sequences of them. *)
(* Tag names, attribute names and attribute values are byte strings.      *)
(*                                                                         *)
(* The rewriter (lol_html) is an external collaborator.  What the model    *)
(* takes from it is stated where it is used:                               *)
(*   - its lexer (NextToken): text up to the next "<", a lone "<" that     *)
(*     opens no tag as a text chunk of its own, start and end tags up to   *)
(*     ">", bogus comments, input held back while a tag is incomplete, and *)
(*     at end of input an incomplete tag passed through as raw bytes;      *)
(*   - its open-element stack (an end tag closes the innermost open        *)
(*     element of its name and everything opened inside it; only that      *)
(*     element's end-tag handlers run); void elements have no end tag;     *)
(*   - handlers run for every token, also inside a removed element, whose  *)
(*     tokens are not emitted; content appended at document end is always  *)
(*     emitted;                                                            *)
(*   - attribute names of one start tag are distinct.                      *)
(***************************************************************************)
EXTENDS Naturals, Sequences, FiniteSets, TLC

VARIABLES
    policy,         \* the BubbleBath instance the call runs with (read-only)
    api,            \* the call made: "clean" or "clean_streaming"
    input,          \* the bytes the caller's iterator will deliver
    pos,            \* number of input bytes already delivered in chunks
    pc,             \* position of clean_streaming / clean
    buf,            \* bytes written to the rewriter and not yet tokenized
    final,          \* rewriter.end() was called
    stack,          \* the rewriter's open elements, outermost first
    out,            \* bytes the sink has received
    opening_tags,   \* RefCell<usize>: pending angle-bracket counter
    padding,        \* '>' bytes still to be written after the last chunk
    unclosed_tags,  \* Slab<String>: the unclosed tag registry
    ret,            \* what clean() returned
    element,        \* element filter alone: the start tag under the handler
    handled,        \* element filter alone: the handler's result
    source,         \* text escaper alone: the text run and where it is cut
    escaped,        \* text escaper alone: the escaped pieces
    calls           \* two calls on one policy: their runs and their cells

vars == << policy, api, input, pos, pc, buf, final, stack, out, opening_tags,
           padding, unclosed_tags, ret, element, handled, source, escaped, calls >>

-----------------------------------------------------------------------------
(* Byte strings *)

Drop(s, n) == SubSeq(s, n + 1, Len(s))

Take(s, n) == SubSeq(s, 1, n)

RECURSIVE Flatten(_)
Flatten(ss) == IF ss = << >> THEN << >> ELSE Head(ss) \o Flatten(Tail(ss))

\* bytecount::count(bytes, c)
RECURSIVE Count(_, _)
Count(bytes, c) ==
    IF bytes = << >> THEN 0
    ELSE (IF Head(bytes) = c THEN 1 ELSE 0) + Count(Tail(bytes), c)

\* usize::saturating_sub
SaturatingSub(a, b) == IF a > b THEN a - b ELSE 0

\* Index of the first byte of s that is in set cs, 0 when there is none.
RECURSIVE FindFrom(_, _, _)
FindFrom(s, cs, i) ==
    IF i > Len(s) THEN 0
    ELSE IF s[i] \in cs THEN i
    ELSE FindFrom(s, cs, i + 1)

\* Index at which pat first occurs in s, 0 when it does not (str::find).
RECURSIVE FindSub(_, _, _)
FindSub(s, pat, i) ==
    IF i + Len(pat) - 1 > Len(s) THEN 0
    ELSE IF SubSeq(s, i, i + Len(pat) - 1) = pat THEN i
    ELSE FindSub(s, pat, i + 1)

-----------------------------------------------------------------------------
(* Text Escaper *)

\* A table that replaces only "<", ">" and "&".
ReplacementOfMarkupOnly(chr) ==
    CASE chr = "<"   -> << "&", "l", "t", ";" >>
      [] chr = ">"   -> << "&", "g", "t", ";" >>
      [] chr = "&"   -> << "&", "a", "m", "p", ";" >>
      [] OTHER       -> << chr >>

\* The replacement table of clean_text, one character at a time ("BT" is the
\* backtick and "NUL" the zero character).
Replacement(chr) ==
    CASE chr = "<"   -> << "&", "l", "t", ";" >>
      [] chr = ">"   -> << "&", "g", "t", ";" >>
      [] chr = "\""  -> << "&", "q", "u", "o", "t", ";" >>
      [] chr = "'"   -> << "&", "a", "p", "o", "s", ";" >>
      [] chr = "BT"  -> << "&", "g", "r", "a", "v", "e", ";" >>
      [] chr = "/"   -> << "&", "#", "4", "7", ";" >>
      [] chr = "&"   -> << "&", "a", "m", "p", ";" >>
      [] chr = "="   -> << "&", "#", "6", "1", ";" >>
      [] chr = "NUL" -> << "&", "#", "6", "5", "5", "3", "3", ";" >>
      [] OTHER       -> << chr >>

RECURSIVE clean_text(_)
clean_text(src) ==
    IF src = << >> THEN << >>
    ELSE Replacement(Head(src)) \o clean_text(Tail(src))

\* lol_html escapes content given as ContentType::Text: "<", ">" and "&".
RECURSIVE EscapeAsText(_)
EscapeAsText(s) ==
    IF s = << >> THEN << >>
    ELSE (CASE Head(s) = "<" -> << "&", "l", "t", ";" >>
            [] Head(s) = ">" -> << "&", "g", "t", ";" >>
            [] Head(s) = "&" -> << "&", "a", "m", "p", ";" >>
            [] OTHER         -> << Head(s) >>) \o EscapeAsText(Tail(s))

-----------------------------------------------------------------------------
(* Pending angle-bracket counter *)

count_unclosed_opening_tags(counter, bytes) ==
    SaturatingSub(counter + Count(bytes, "<"), Count(bytes, ">"))

subtract_opening_tags(counter, bytes) ==
    SaturatingSub(counter, count_unclosed_opening_tags(0, bytes))

-----------------------------------------------------------------------------
(* Unclosed tag registry: slab::Slab<String>.  A slot is occupied by a tag  *)
(* name or vacant and linked into the free list; keys count from 1 here    *)
(* (from 0 in the crate).  `next` is the key the next insert takes.        *)

Vacant(nxt) == [occupied |-> FALSE, name |-> << >>, nxt |-> nxt]

Occupied(name) == [occupied |-> TRUE, name |-> name, nxt |-> 0]

SlabNew == [slots |-> << >>, next |-> 1]

SlabContains(slab, key) ==
    key \in 1..Len(slab.slots) /\ slab.slots[key].occupied

\* Slab::insert: the key used and the slab afterwards.
SlabInsert(slab, name) ==
    IF slab.next = Len(slab.slots) + 1
    THEN [key  |-> slab.next,
          slab |-> [slots |-> Append(slab.slots, Occupied(name)),
                    next  |-> slab.next + 1]]
    ELSE [key  |-> slab.next,
          slab |-> [slots |-> [slab.slots EXCEPT ![slab.next] = Occupied(name)],
                    next  |-> slab.slots[slab.next].nxt]]

\* A remove that leaves the entry in place.
SlabRemoveKeepsEntry(slab, key) == slab

\* Slab::remove on an occupied key (it panics on a vacant one).
SlabRemove(slab, key) ==
    [slots |-> [slab.slots EXCEPT ![key] = Vacant(slab.next)],
     next  |-> key]

\* Slab::iter: the occupied entries in ascending key order.
RECURSIVE SlabIterFrom(_, _)
SlabIterFrom(slab, key) ==
    IF key > Len(slab.slots) THEN << >>
    ELSE (IF slab.slots[key].occupied THEN << slab.slots[key].name >> ELSE << >>)
         \o SlabIterFrom(slab, key + 1)

SlabIter(slab) == SlabIterFrom(slab, 1)

-----------------------------------------------------------------------------
(* Element Event: the start tag the rewriter hands to the element handler. *)
(* attrs is the ordered attribute list, each [name, value];                *)
(* can_have_content is false for a void element, which has no end tag and  *)
(* for which Element::end_tag_handlers() is None.                          *)

Attr(name, value) == [name |-> name, value |-> value]

\* Position of the attribute called name, 0 when the element has none.
RECURSIVE AttrIndexFrom(_, _, _)
AttrIndexFrom(attrs, name, i) ==
    IF i > Len(attrs) THEN 0
    ELSE IF attrs[i].name = name THEN i
    ELSE AttrIndexFrom(attrs, name, i + 1)

AttrIndex(attrs, name) == AttrIndexFrom(attrs, name, 1)

has_attribute(attrs, name) == AttrIndex(attrs, name) # 0

\* Element::get_attribute, where the attribute is present.
get_attribute(attrs, name) == attrs[AttrIndex(attrs, name)].value

\* Element::remove_attribute
remove_attribute(attrs, name) ==
    LET i == AttrIndex(attrs, name)
    IN  IF i = 0 THEN attrs
        ELSE SubSeq(attrs, 1, i - 1) \o SubSeq(attrs, i + 1, Len(attrs))

\* lol_html accepts an attribute name that is not empty and holds no
\* whitespace and none of / > = " '
ValidAttributeName(name) ==
    /\ name # << >>
    /\ \A i \in 1..Len(name) : name[i] \notin {" ", "/", ">", "=", "\"", "'"}

\* set_attribute as it would be if it left an attribute already present alone.
set_attributeIfAbsent(attrs, name, value) ==
    IF AttrIndex(attrs, name) = 0 THEN Append(attrs, Attr(name, value)) ELSE attrs

\* Element::set_attribute with a valid name: overwrite in place or append.
set_attribute(attrs, name, value) ==
    LET i == AttrIndex(attrs, name)
    IN  IF i = 0 THEN Append(attrs, Attr(name, value))
        ELSE [attrs EXCEPT ![i].value = value]

\* How lol_html writes a start tag whose attributes were changed.
RECURSIVE SerializeAttrs(_)
SerializeAttrs(attrs) ==
    IF attrs = << >> THEN << >>
    ELSE << " " >> \o Head(attrs).name \o << "=", "\"" >> \o Head(attrs).value
         \o << "\"" >> \o SerializeAttrs(Tail(attrs))

Serialize(name, attrs, self_closing) ==
    << "<" >> \o name \o SerializeAttrs(attrs)
    \o (IF self_closing THEN << " ", "/", ">" >> ELSE << ">" >>)

-----------------------------------------------------------------------------
(* Element Filter *)

\* clean_attributes as it would be if it removed nothing.
clean_attributesKeepsAll(p, tag_name, attrs) == attrs

\* The attributes clean_attributes leaves on an allowed tag.
clean_attributes(p, tag_name, attrs) ==
    SelectSeq(attrs, LAMBDA a :
        \/ a.name \in p.allowed_generic_attributes
        \/ /\ tag_name \in DOMAIN p.allowed_tag_attributes
           /\ a.name \in p.allowed_tag_attributes[tag_name])

\* str::split_once("://"): the part before the first "://", where there is one.
HasSchemeSeparator(raw_url) == FindSub(raw_url, << ":", "/", "/" >>, 1) # 0

SchemeOf(raw_url) == Take(raw_url, FindSub(raw_url, << ":", "/", "/" >>, 1) - 1)

\* clean_link as it would be if it kept a value that holds no "://".
clean_linkKeepsUnseparated(p, attrs, attribute_name) ==
    IF ~has_attribute(attrs, attribute_name) THEN attrs
    ELSE LET raw_url == get_attribute(attrs, attribute_name)
         IN  IF HasSchemeSeparator(raw_url)
                /\ SchemeOf(raw_url) \notin p.allowed_url_schemes
             THEN remove_attribute(attrs, attribute_name)
             ELSE attrs

clean_link(p, attrs, attribute_name) ==
    IF ~has_attribute(attrs, attribute_name) THEN attrs
    ELSE LET raw_url == get_attribute(attrs, attribute_name)
         IN  IF ~HasSchemeSeparator(raw_url)
             THEN remove_attribute(attrs, attribute_name)
             ELSE IF SchemeOf(raw_url) \notin p.allowed_url_schemes
             THEN remove_attribute(attrs, attribute_name)
             ELSE attrs

\* for name in attributes { self.clean_link(element, name) }
RECURSIVE CleanLinks(_, _, _)
CleanLinks(p, attrs, names) ==
    IF names = {} THEN attrs
    ELSE LET name == CHOOSE n \in names : TRUE
         IN  CleanLinks(p, clean_link(p, attrs, name), names \ {name})

\* for (name, value) in set_attributes { element.set_attribute(name, value)? }
RECURSIVE SetAttributes(_, _, _)
SetAttributes(attrs, set_attributes, names) ==
    IF names = {} THEN attrs
    ELSE LET name == CHOOSE n \in names : TRUE
         IN  SetAttributes(set_attribute(attrs, name, set_attributes[name]),
                           set_attributes, names \ {name})

\* The string delete_element formats for a tag it escapes.
RECURSIVE FormattedAttributes(_)
FormattedAttributes(attrs) ==
    IF attrs = << >> THEN << >>
    ELSE << " " >> \o Head(attrs).name \o << "=", "\"" >> \o Head(attrs).value
         \o << "\"" >> \o FormattedAttributes(Tail(attrs))

Formatted(el) ==
    << "<" >> \o el.name \o FormattedAttributes(el.attrs)
    \o (IF el.self_closing THEN << " ", "/", ">" >> ELSE << ">" >>)

(* What a handler call leaves behind:                                      *)
(*   err      the handler returned Err;                                    *)
(*   action   "remove" (Element::remove), "unwrap" (remove_and_keep_       *)
(*            content), "escape" (start tag replaced by text) or "keep";   *)
(*   attrs    the element's attributes afterwards;                         *)
(*   slab     the registry afterwards;                                     *)
(*   handlers the end-tag closures pushed: "unclose" removes key from the  *)
(*            registry, "escape" replaces the end tag by text.             *)
Outcome(err, action, attrs, slab, handlers) ==
    [err |-> err, action |-> action, attrs |-> attrs, slab |-> slab,
     handlers |-> handlers]

\* delete_element as it would be if it pushed the end-tag closure only for a
\* start tag that is not written self-closing.
delete_elementUnlessSelfClosing(p, el, slab) ==
    IF p.preserve_escaped
    THEN Outcome(FALSE, "escape", el.attrs, slab,
                 IF el.can_have_content /\ ~el.self_closing
                 THEN << [kind |-> "escape", key |-> 0] >>
                 ELSE << >>)
    ELSE Outcome(FALSE, "unwrap", el.attrs, slab, << >>)

delete_element(p, el, slab) ==
    IF p.preserve_escaped
    THEN Outcome(FALSE, "escape", el.attrs, slab,
                 IF el.can_have_content THEN << [kind |-> "escape", key |-> 0] >>
                 ELSE << >>)
    ELSE Outcome(FALSE, "unwrap", el.attrs, slab, << >>)

SetTagAttributes(p, tag_name) ==
    IF tag_name \in DOMAIN p.set_tag_attributes
    THEN p.set_tag_attributes[tag_name] ELSE << >>

CleanUrlAttributes(p, tag_name) ==
    IF tag_name \in DOMAIN p.clean_url_attributes
    THEN p.clean_url_attributes[tag_name] ELSE {}

\* The element handler's three steps with the URL cleaning moved before the
\* injection.
AllowedAttributesCleanedFirst(p, el) ==
    LET filtered == clean_attributes(p, el.name, el.attrs)
        cleaned  == CleanLinks(p, filtered, CleanUrlAttributes(p, el.name))
        to_set   == SetTagAttributes(p, el.name)
    IN  SetAttributes(cleaned, to_set, DOMAIN to_set)

\* The attributes of an allowed tag after filtering, injection and URL cleaning.
AllowedAttributes(p, el) ==
    LET filtered == clean_attributes(p, el.name, el.attrs)
        to_set   == SetTagAttributes(p, el.name)
        injected == SetAttributes(filtered, to_set, DOMAIN to_set)
    IN  CleanLinks(p, injected, CleanUrlAttributes(p, el.name))

\* An element handler that never enters a tag into the registry.
RegistersNothing(el) == FALSE

\* The tag enters the registry unless it is written self-closing.
Registers(el) == ~el.self_closing

\* element_handler as it would be if it dropped the result of set_attribute.
element_handlerIgnoringErrors(p, el, slab) ==
    IF el.name \in p.remove_content_tags
    THEN Outcome(FALSE, "remove", el.attrs, slab, << >>)
    ELSE IF el.name \notin p.allowed_tags
    THEN delete_element(p, el, slab)
    ELSE IF Registers(el)
    THEN LET ins == SlabInsert(slab, el.name)
         IN  Outcome(FALSE, "keep", AllowedAttributes(p, el), ins.slab,
                     IF el.can_have_content
                     THEN << [kind |-> "unclose", key |-> ins.key] >>
                     ELSE << >>)
    ELSE Outcome(FALSE, "keep", AllowedAttributes(p, el), slab, << >>)

element_handler(p, el, slab) ==
    IF el.name \in p.remove_content_tags
    THEN Outcome(FALSE, "remove", el.attrs, slab, << >>)
    ELSE IF el.name \notin p.allowed_tags
    THEN delete_element(p, el, slab)
    ELSE IF \E n \in DOMAIN SetTagAttributes(p, el.name) : ~ValidAttributeName(n)
    THEN Outcome(TRUE, "keep", clean_attributes(p, el.name, el.attrs), slab, << >>)
    ELSE IF Registers(el)
    THEN LET ins == SlabInsert(slab, el.name)
         IN  Outcome(FALSE, "keep", AllowedAttributes(p, el), ins.slab,
                     IF el.can_have_content
                     THEN << [kind |-> "unclose", key |-> ins.key] >>
                     ELSE << >>)
    ELSE Outcome(FALSE, "keep", AllowedAttributes(p, el), slab, << >>)

-----------------------------------------------------------------------------
(* The rewriter's lexer (lol_html), over the bytes it holds.               *)

Alpha == {"a", "b", "c", "d", "e", "f", "g", "h", "i", "j", "k", "l", "m",
          "n", "o", "p", "q", "r", "s", "t", "u", "v", "w", "x", "y", "z"}

\* HTML elements that have no content and no end tag.
VoidTags == {<< "b", "r" >>, << "h", "r" >>, << "i", "m", "g" >>}

NoToken == [kind |-> "none", len |-> 0, name |-> << >>, attrs |-> << >>,
            self_closing |-> FALSE, text |-> << >>]

TextToken(text) == [NoToken EXCEPT !.kind = "text", !.len = Len(text), !.text = text]

RawToken(bytes) == [NoToken EXCEPT !.kind = "raw", !.len = Len(bytes), !.text = bytes]

\* The attribute names written between a tag's name and its ">": the runs
\* of bytes other than "/" and whitespace, a repeated name dropped.
RECURSIVE AreaNames(_, _, _)
AreaNames(area, run, names) ==
    LET closed == IF run = << >> \/ \E i \in 1..Len(names) : names[i] = run
                  THEN names ELSE Append(names, run)
    IN  IF area = << >> THEN closed
        ELSE IF Head(area) \in {"/", " "} THEN AreaNames(Tail(area), << >>, closed)
        ELSE AreaNames(Tail(area), Append(run, Head(area)), names)

AreaAttrs(area) ==
    LET names == AreaNames(area, << >>, << >>)
    IN  [i \in 1..Len(names) |-> Attr(names[i], << >>)]

\* A tag whose name starts at byte `from` of b and which ends at the first ">".
TagToken(kind, b, from, fin) ==
    LET gt      == FindFrom(b, {">"}, from)
        stop    == FindFrom(b, {"/", " ", ">"}, from)
        area    == SubSeq(b, stop, gt - 1)
    IN  IF gt = 0 THEN (IF fin THEN RawToken(b) ELSE NoToken)
        ELSE [kind |-> kind, len |-> gt, name |-> SubSeq(b, from, stop - 1),
              attrs |-> AreaAttrs(area),
              self_closing |-> (area # << >> /\ area[Len(area)] = "/"),
              text |-> Take(b, gt)]

\* A bogus comment whose text starts at byte `from` and runs to the first ">".
CommentToken(b, from, fin) ==
    LET gt == FindFrom(b, {">"}, from)
    IN  IF gt = 0
        THEN (IF fin
              THEN [NoToken EXCEPT !.kind = "comment", !.len = Len(b),
                                   !.text = Drop(b, from - 1)]
              ELSE NoToken)
        ELSE [NoToken EXCEPT !.kind = "comment", !.len = gt,
                             !.text = SubSeq(b, from, gt - 1)]

\* The next token of the held bytes b; fin: no more input will come.
NextToken(b, fin) ==
    IF b = << >> THEN NoToken
    ELSE IF b[1] # "<"
    THEN LET lt == FindFrom(b, {"<"}, 1)
         IN  TextToken(IF lt = 0 THEN b ELSE Take(b, lt - 1))
    ELSE IF Len(b) = 1 THEN (IF fin THEN TextToken(b) ELSE NoToken)
    ELSE IF b[2] \in Alpha THEN TagToken("start", b, 2, fin)
    ELSE IF b[2] = "/"
    THEN IF Len(b) = 2 THEN (IF fin THEN TextToken(b) ELSE NoToken)
         ELSE IF b[3] \in Alpha THEN TagToken("end", b, 3, fin)
         ELSE IF b[3] = ">" THEN RawToken(Take(b, 3))
         ELSE CommentToken(b, 3, fin)
    ELSE IF b[2] = "!"
    THEN IF Len(b) = 2 THEN (IF fin THEN RawToken(b) ELSE NoToken)
         ELSE CommentToken(b, 3, fin)
    ELSE TextToken(<< "<" >>)

-----------------------------------------------------------------------------
(* One sanitize call: the rewriter with the handlers clean_streaming gives *)
(* it.  A call's state is a record                                         *)
(*   buf, final, stack, out      the rewriter (see VARIABLES)              *)
(*   opening_tags, unclosed_tags the two cells the handlers capture        *)
(*   failed                      "no", "err" (a handler returned Err and   *)
(*                               write returned it) or "panic"             *)
(* A stack entry is an open element: its name, the end-tag closures pushed *)
(* for it, whether its content is removed and whether its end tag is.      *)

NewCall ==
    [buf |-> << >>, final |-> FALSE, stack |-> << >>, out |-> << >>,
     opening_tags |-> 0, unclosed_tags |-> SlabNew, failed |-> "no"]

Removing(stk) == \E i \in 1..Len(stk) : stk[i].remove_content

\* Index of the innermost open element called name, 0 when none is open.
RECURSIVE InnermostFrom(_, _, _)
InnermostFrom(stk, name, i) ==
    IF i = 0 THEN 0
    ELSE IF stk[i].name = name THEN i
    ELSE InnermostFrom(stk, name, i - 1)

Innermost(stk, name) == InnermostFrom(stk, name, Len(stk))

\* text_handler
text_handler(c, text) ==
    [c EXCEPT !.opening_tags = subtract_opening_tags(c.opening_tags, text),
              !.out = IF Removing(c.stack) THEN c.out
                      ELSE c.out \o clean_text(text)]

\* comment_handler: the comment is counted and removed.
comment_handler(c, text) ==
    [c EXCEPT !.opening_tags = subtract_opening_tags(c.opening_tags, text)]

\* Bytes the rewriter passes through without a token.
PassThrough(c, bytes) ==
    [c EXCEPT !.out = IF Removing(c.stack) THEN c.out ELSE c.out \o bytes]

ElementOf(tok) ==
    [name |-> tok.name, attrs |-> tok.attrs, self_closing |-> tok.self_closing,
     can_have_content |-> tok.name \notin VoidTags]

\* What the rewriter writes for a start tag after its handler ran.
StartTagOutput(tok, el, o) ==
    CASE o.action = "escape" -> EscapeAsText(Formatted(el))
      [] o.action = "keep"   -> IF o.attrs = el.attrs THEN tok.text
                                ELSE Serialize(el.name, o.attrs, el.self_closing)
      [] OTHER               -> << >>

\* A start tag: the element handler runs, then the element is opened.
OnStartTag(p, c, tok) ==
    LET el == ElementOf(tok)
        o  == element_handler(p, el, c.unclosed_tags)
    IN  IF o.err THEN [c EXCEPT !.failed = "err"]
        ELSE [c EXCEPT
                !.unclosed_tags = o.slab,
                !.out = IF Removing(c.stack) THEN c.out
                        ELSE c.out \o StartTagOutput(tok, el, o),
                !.stack = IF el.can_have_content
                          THEN Append(c.stack,
                                 [name |-> el.name, self_closing |-> el.self_closing,
                                  handlers |-> o.handlers,
                                  remove_content |-> (o.action = "remove"),
                                  drop_end |-> (o.action \in {"remove", "unwrap"})])
                          ELSE c.stack]

\* The end-tag closures of an element, run on its end tag.
RECURSIVE RunEndTagHandlers(_, _)
RunEndTagHandlers(c, handlers) ==
    IF handlers = << >> \/ c.failed # "no" THEN c
    ELSE LET h == Head(handlers)
         IN  IF h.kind = "unclose"
             THEN IF SlabContains(c.unclosed_tags, h.key)
                  THEN RunEndTagHandlers(
                         [c EXCEPT !.unclosed_tags = SlabRemove(c.unclosed_tags, h.key)],
                         Tail(handlers))
                  ELSE [c EXCEPT !.failed = "panic"]
             ELSE RunEndTagHandlers(c, Tail(handlers))

Escapes(handlers) == \E i \in 1..Len(handlers) : handlers[i].kind = "escape"

\* An end tag: it closes the innermost open element of its name, whose
\* closures run; with no such element it is passed through.
OnEndTag(p, c, tok) ==
    LET i == Innermost(c.stack, tok.name)
    IN  IF i = 0 THEN PassThrough(c, tok.text)
        ELSE LET e      == c.stack[i]
                 closed == [c EXCEPT !.stack = Take(c.stack, i - 1)]
                 ran    == RunEndTagHandlers(closed, e.handlers)
             IN  IF ran.failed # "no" \/ Removing(ran.stack) \/ e.drop_end THEN ran
                 ELSE IF Escapes(e.handlers)
                 THEN [ran EXCEPT !.out = ran.out \o
                          EscapeAsText(<< "<", "/" >> \o tok.name \o << ">" >>)]
                 ELSE [ran EXCEPT !.out = ran.out \o tok.text]

\* The rewriter consumes one token and calls the handler for it.
Process(p, c, tok) ==
    LET rest == [c EXCEPT !.buf = Drop(c.buf, tok.len)]
    IN  CASE tok.kind = "text"    -> text_handler(rest, tok.text)
          [] tok.kind = "comment" -> comment_handler(rest, tok.text)
          [] tok.kind = "raw"     -> PassThrough(rest, tok.text)
          [] tok.kind = "start"   -> OnStartTag(p, rest, tok)
          [] tok.kind = "end"     -> OnEndTag(p, rest, tok)

\* document_end_handler: a closer for every entry left in the registry.
RECURSIVE Closers(_)
Closers(names) ==
    IF names = << >> THEN << >>
    ELSE << "<", "/" >> \o Head(names) \o << ">" >> \o Closers(Tail(names))

document_end_handler(c) ==
    [c EXCEPT !.out = c.out \o Closers(SlabIter(c.unclosed_tags))]

\* The rewriter tokenizes what it holds until it needs more input.
RECURSIVE Drain(_, _)
Drain(p, c) ==
    LET tok == NextToken(c.buf, c.final)
    IN  IF c.failed # "no" \/ tok.kind = "none" THEN c
        ELSE Drain(p, Process(p, c, tok))

\* rewriter.write(chunk)
Write(p, c, chunk) ==
    IF c.failed # "no" THEN c ELSE Drain(p, [c EXCEPT !.buf = c.buf \o chunk])

\* for chunk in input { count_unclosed_opening_tags(..); rewriter.write(chunk)? }
RECURSIVE WriteChunks(_, _, _)
WriteChunks(p, c, chunks) ==
    IF chunks = << >> \/ c.failed # "no" THEN c
    ELSE WriteChunks(p,
           Write(p, [c EXCEPT !.opening_tags =
                        count_unclosed_opening_tags(c.opening_tags, Head(chunks))],
                 Head(chunks)),
           Tail(chunks))

\* for _ in 0..opening_tags { rewriter.write(&[b'>'])? }
RECURSIVE WritePadding(_, _, _)
WritePadding(p, c, n) ==
    IF n = 0 \/ c.failed # "no" THEN c
    ELSE WritePadding(p, Write(p, c, << ">" >>), n - 1)

\* rewriter.end()
End(p, c) ==
    LET flushed == Drain(p, [c EXCEPT !.final = TRUE])
    IN  IF flushed.failed # "no" THEN flushed ELSE document_end_handler(flushed)

\* clean_streaming over a whole sequence of chunks.
clean_streaming(p, chunks) ==
    LET written == WriteChunks(p, NewCall, chunks)
        padded  == WritePadding(p, written, written.opening_tags)
    IN  IF padded.failed # "no" THEN padded ELSE End(p, padded)

\* A clean that returns the accumulated bytes even when the call failed.
CleanResultKeepsOutput(failed, acc) == [ok |-> failed = "no", value |-> acc]

\* clean: the whole content as one chunk, the sink's bytes returned on success.
CleanResult(failed, acc) ==
    IF failed # "no" THEN [ok |-> FALSE, value |-> << >>]
    ELSE [ok |-> TRUE, value |-> acc]

clean(p, content) ==
    LET c == clean_streaming(p, << content >>)
    IN  CleanResult(c.failed, c.out)

-----------------------------------------------------------------------------
(* Policies and inputs of the checked calls *)

TagB  == << "b" >>

TagBr == << "b", "r" >>

TagS  == << "s" >>

\* A BubbleBath in the shape of BubbleBath::default, cut down to three tags:
\* b and br are allowed, s is removed with its content, nothing is injected.
BasePolicy ==
    [allowed_generic_attributes |-> {},
     allowed_tags               |-> {TagB, TagBr},
     allowed_tag_attributes     |-> << >>,
     allowed_url_schemes        |-> {},
     clean_url_attributes       |-> << >>,
     preserve_escaped           |-> FALSE,
     remove_content_tags        |-> {TagS},
     set_tag_attributes         |-> << >>]

\* preserve_escaped: true, ..BubbleBath::default() (tests/basic.rs)
EscapePolicy == [BasePolicy EXCEPT !.preserve_escaped = TRUE]

\* s is allowed as well as removed, and the attribute name to set on br and
\* on s is not a valid one.
StrictPolicy ==
    [BasePolicy EXCEPT
        !.allowed_tags = {TagB, TagBr, TagS},
        !.set_tag_attributes = (TagBr :> (<< " " >> :> << "v" >>))
                            @@ (TagS  :> (<< " " >> :> << "v" >>))]

Policies == {BasePolicy, EscapePolicy, StrictPolicy}

\* Inputs are all byte strings of up to MaxLen of these bytes ...
Bytes == {"<", ">", "/", "!", "b"}

MaxLen == 4

RECURSIVE ByteStrings(_)
ByteStrings(n) ==
    IF n = 0 THEN { << >> }
    ELSE LET shorter == ByteStrings(n - 1)
         IN  shorter \cup { Append(x, c) : x \in shorter, c \in Bytes }

\* ... and the strings put together from up to MaxTags of these pieces.
TagLexicon ==
    { << "b" >>,
      << "<", "b", ">" >>, << "<", "/", "b", ">" >>,
      << "<", "s", ">" >>, << "<", "/", "s", ">" >>,
      << "<", "x", ">" >>, << "<", "/", "x", ">" >>,
      << "<", "b", "r", ">" >> }

MaxTags == 3

RECURSIVE TagStrings(_)
TagStrings(n) ==
    IF n = 0 THEN { << >> }
    ELSE LET shorter == TagStrings(n - 1)
         IN  shorter \cup { x \o l : x \in shorter, l \in TagLexicon }

Inputs == ByteStrings(MaxLen) \cup TagStrings(MaxTags)

-----------------------------------------------------------------------------
(* clean_streaming / clean, step by step.  pc: "Idle" (the rewriter is     *)
(* built), "Streaming" (chunks are written), "Draining" (the padding is    *)
(* written), "Finalizing" (rewriter.end() runs), "Done", "Failed" (an Err  *)
(* was returned), "Panicked".                                              *)

Call ==
    [buf |-> buf, final |-> final, stack |-> stack, out |-> out,
     opening_tags |-> opening_tags, unclosed_tags |-> unclosed_tags,
     failed |-> "no"]

Becomes(c) ==
    /\ buf' = c.buf
    /\ final' = c.final
    /\ stack' = c.stack
    /\ out' = c.out
    /\ opening_tags' = c.opening_tags
    /\ unclosed_tags' = c.unclosed_tags

filterVars == << element, handled >>

textVars == << source, escaped >>

pairVars == << calls >>

\* The rewriter has tokenized all it can of what it was given.
Waiting == NextToken(buf, final).kind = "none"

Init ==
    /\ policy \in Policies
    /\ api \in {"clean", "clean_streaming"}
    /\ input \in Inputs
    /\ pos = 0
    /\ pc = "Idle"
    /\ buf = << >>
    /\ final = FALSE
    /\ stack = << >>
    /\ out = << >>
    /\ opening_tags = 0
    /\ padding = 0
    /\ unclosed_tags = SlabNew
    /\ ret = << >>
    /\ element = << >>
    /\ handled = << >>
    /\ source = << >>
    /\ escaped = << >>
    /\ calls = << >>

\* The iterator yields the next chunk: it is counted and written.  clean
\* gives the whole content as the only chunk (iter::once).
WriteChunk ==
    /\ pc \in {"Idle", "Streaming"}
    /\ Waiting
    /\ \E k \in 1..(Len(input) - pos) :
          LET chunk == SubSeq(input, pos + 1, pos + k)
          IN  /\ api = "clean" => k = Len(input)
              /\ opening_tags' = count_unclosed_opening_tags(opening_tags, chunk)
              /\ buf' = buf \o chunk
              /\ pos' = pos + k
    /\ pc' = "Streaming"
    /\ UNCHANGED << policy, api, input, final, stack, out, padding, unclosed_tags, ret,
                    filterVars, textVars, pairVars >>

\* The rewriter reaches a token of the given kind and calls its handler.
HandleToken(kind) ==
    /\ pc \in {"Streaming", "Draining", "Finalizing"}
    /\ LET tok == NextToken(buf, final)
       IN  /\ tok.kind = kind
           /\ LET c == Process(policy, Call, tok)
              IN  /\ Becomes(c)
                  /\ pc' = CASE c.failed = "err"   -> "Failed"
                             [] c.failed = "panic" -> "Panicked"
                             [] OTHER              -> pc
                  /\ ret' = IF c.failed = "err" /\ api = "clean"
                            THEN << CleanResult(c.failed, c.out) >> ELSE ret
    /\ UNCHANGED << policy, api, input, pos, padding, filterVars, textVars, pairVars >>

TextChunk == HandleToken("text")

CommentSeen == HandleToken("comment")

StartTag == HandleToken("start")

EndTag == HandleToken("end")

RawBytes == HandleToken("raw")

\* The iterator is exhausted: the counter's value is read for the padding.
LastChunk ==
    /\ pc \in {"Idle", "Streaming"}
    /\ Waiting
    /\ pos = Len(input)
    /\ padding' = opening_tags
    /\ pc' = "Draining"
    /\ UNCHANGED << policy, api, input, pos, buf, final, stack, out, opening_tags,
                    unclosed_tags, ret, filterVars, textVars, pairVars >>

\* rewriter.write(&[b'>'])
WritePad ==
    /\ pc = "Draining"
    /\ Waiting
    /\ padding > 0
    /\ padding' = padding - 1
    /\ buf' = buf \o << ">" >>
    /\ UNCHANGED << policy, api, input, pos, pc, final, stack, out, opening_tags,
                    unclosed_tags, ret, filterVars, textVars, pairVars >>

\* rewriter.end() called without waiting for the padding to be written.
EndInputBeforePadding ==
    /\ pc = "Draining"
    /\ Waiting
    /\ final' = TRUE
    /\ pc' = "Finalizing"
    /\ UNCHANGED << policy, api, input, pos, buf, stack, out, opening_tags, padding,
                    unclosed_tags, ret, filterVars, textVars, pairVars >>

\* rewriter.end() is called
EndInput ==
    /\ pc = "Draining"
    /\ Waiting
    /\ padding = 0
    /\ final' = TRUE
    /\ pc' = "Finalizing"
    /\ UNCHANGED << policy, api, input, pos, buf, stack, out, opening_tags, padding,
                    unclosed_tags, ret, filterVars, textVars, pairVars >>

\* The document end handler runs, end() and the call return.
DocumentEnd ==
    /\ pc = "Finalizing"
    /\ Waiting
    /\ Becomes(document_end_handler(Call))
    /\ pc' = "Done"
    /\ ret' = IF api = "clean" THEN << CleanResult("no", out') >> ELSE ret
    /\ UNCHANGED << policy, api, input, pos, padding, filterVars, textVars, pairVars >>

Next ==
    \/ WriteChunk
    \/ TextChunk
    \/ CommentSeen
    \/ StartTag
    \/ EndTag
    \/ RawBytes
    \/ LastChunk
    \/ WritePad
    \/ EndInput
    \/ DocumentEnd

Spec == Init /\ [][Next]_vars

-----------------------------------------------------------------------------
(* The element filter alone: the rewriter hands one start tag, with        *)
(* attributes, to the element handler, then the element's end tag and the  *)
(* document end, under policies that use every field of BubbleBath.  pc:   *)
(* "Filter" (no tag seen yet), "Open", "Closed", "Failed", "Filtered".     *)

TagA == << "a" >>

TagX == << "x" >>

AttrHref == << "h", "r", "e", "f" >>

AttrTitle == << "t", "i", "t", "l", "e" >>

AttrOnclick == << "o", "n", "c", "l", "i", "c", "k" >>

AttrRel == << "r", "e", "l" >>

SchemeHttp == << "h", "t", "t", "p" >>

UrlGood == << "h", "t", "t", "p", ":", "/", "/", "x" >>

UrlOther == << "h", "t", "t", "p", ":", "/", "/", "y" >>

UrlNoSeparator == << "j", "s", ":", "x" >>

UrlBadScheme == << "j", "s", ":", "/", "/", "x" >>

UrlUpperCase == << "H", "T", "T", "P", ":", "/", "/", "x" >>

UrlNoScheme == << ":", "/", "/", "x" >>

UrlTwoSeparators == << "j", "s", ":", "/", "/", "h", "t", "t", "p", ":", "/", "/", "x" >>

NoReferrer == << "n", "o", "o", "p", "e", "n", "e", "r", " ", "n", "o", "r", "e", "f", "e", "r", "r", "e", "r" >>

\* BubbleBath::default cut down to the tags a and b: title on every tag,
\* href on a, a's href cleaned as a URL, rel set on a, s removed.
FilterPolicy ==
    [allowed_generic_attributes |-> {AttrTitle},
     allowed_tags               |-> {TagA, TagB},
     allowed_tag_attributes     |-> (TagA :> {AttrHref}),
     allowed_url_schemes        |-> {SchemeHttp},
     clean_url_attributes       |-> (TagA :> {AttrHref}),
     preserve_escaped           |-> FALSE,
     remove_content_tags        |-> {TagS},
     set_tag_attributes         |-> (TagA :> (AttrRel :> NoReferrer))]

\* A policy that sets a's href to a value that is no absolute URL.
InjectBadUrlPolicy ==
    [FilterPolicy EXCEPT
        !.set_tag_attributes = (TagA :> ((AttrRel :> NoReferrer) @@ (AttrHref :> UrlNoSeparator)))]

\* A policy that sets a's href to an allowed URL.
InjectGoodUrlPolicy ==
    [FilterPolicy EXCEPT
        !.set_tag_attributes = (TagA :> (AttrHref :> UrlOther))]

\* Escape mode; s is allowed as well as removed and an invalid attribute
\* name is to be set on it; title is cleaned as a URL on b.
EscapeFilterPolicy ==
    [FilterPolicy EXCEPT
        !.preserve_escaped = TRUE,
        !.allowed_tags = {TagA, TagB, TagS},
        !.clean_url_attributes = (TagA :> {AttrHref}) @@ (TagB :> {AttrTitle}),
        !.set_tag_attributes = (TagA :> (AttrRel :> NoReferrer))
                            @@ (TagS :> (<< " " >> :> NoReferrer))]

\* A policy whose attribute name to set on a is not a valid one.
InvalidNamePolicy ==
    [FilterPolicy EXCEPT
        !.set_tag_attributes = (TagA :> (<< "r", " ", "l" >> :> NoReferrer))]

FilterPolicies ==
    {FilterPolicy, InjectBadUrlPolicy, InjectGoodUrlPolicy, EscapeFilterPolicy,
     InvalidNamePolicy}

AttrPool ==
    { Attr(AttrHref, v) : v \in {UrlGood, UrlNoSeparator, UrlBadScheme, UrlUpperCase,
                                 UrlNoScheme, UrlTwoSeparators} }
    \cup { Attr(AttrTitle, << "t" >>), Attr(AttrTitle, UrlGood),
           Attr(AttrOnclick, << "e" >>), Attr(AttrRel, << "x" >>) }

MaxAttrs == 2

\* The attribute lists of up to n attributes with distinct names.
RECURSIVE AttrLists(_)
AttrLists(n) ==
    IF n = 0 THEN { << >> }
    ELSE LET shorter == AttrLists(n - 1)
         IN  shorter \cup UNION { { Append(l, a) :
                                      a \in { x \in AttrPool : ~has_attribute(l, x.name) } } :
                                    l \in shorter }

Elements ==
    { [name |-> n, attrs |-> l, self_closing |-> sc, can_have_content |-> TRUE] :
        n \in {TagA, TagB, TagS, TagX}, l \in AttrLists(MaxAttrs), sc \in BOOLEAN }

StartTagOf(el) ==
    [kind |-> "start", len |-> 0, name |-> el.name, attrs |-> el.attrs,
     self_closing |-> el.self_closing,
     text |-> Serialize(el.name, el.attrs, el.self_closing)]

EndTagOf(el) ==
    [NoToken EXCEPT !.kind = "end", !.name = el.name,
                    !.text = << "<", "/" >> \o el.name \o << ">" >>]

callVars == << buf, final, stack, out, opening_tags, unclosed_tags >>

FilterInit ==
    /\ policy \in FilterPolicies
    /\ api = "clean_streaming"
    /\ input = << >>
    /\ pos = 0
    /\ pc = "Filter"
    /\ buf = << >>
    /\ final = FALSE
    /\ stack = << >>
    /\ out = << >>
    /\ opening_tags = 0
    /\ padding = 0
    /\ unclosed_tags = SlabNew
    /\ ret = << >>
    /\ element = << >>
    /\ handled = << >>
    /\ source = << >>
    /\ escaped = << >>
    /\ calls = << >>

\* The rewriter reaches a start tag and calls the element handler.
StartTagEvent ==
    /\ pc = "Filter"
    /\ \E el \in Elements :
          LET c == OnStartTag(policy, Call, StartTagOf(el))
          IN  /\ element' = << el >>
              /\ handled' = << element_handler(policy, el, unclosed_tags) >>
              /\ Becomes(c)
              /\ pc' = IF c.failed = "err" THEN "Failed" ELSE "Open"
    /\ UNCHANGED << policy, api, input, pos, padding, ret, textVars, pairVars >>

\* The rewriter reaches the element's end tag.
EndTagEvent ==
    /\ pc = "Open"
    /\ LET c == OnEndTag(policy, Call, EndTagOf(element[1]))
       IN  /\ Becomes(c)
           /\ pc' = IF c.failed = "panic" THEN "Panicked" ELSE "Closed"
    /\ UNCHANGED << policy, api, input, pos, padding, ret, filterVars, textVars, pairVars >>

\* The document ends with the element open or closed.
DocumentEndEvent ==
    /\ pc \in {"Open", "Closed"}
    /\ Becomes(document_end_handler(Call))
    /\ pc' = "Filtered"
    /\ UNCHANGED << policy, api, input, pos, padding, ret, filterVars, textVars, pairVars >>

FilterNext ==
    \/ StartTagEvent
    \/ EndTagEvent
    \/ DocumentEndEvent

SpecFilter == FilterInit /\ [][FilterNext]_vars

-----------------------------------------------------------------------------
(* The text escaper alone: the rewriter hands a text run to the text       *)
(* handler in one or more pieces.  source is the run, how much of it was   *)
(* handed over and in how many pieces; escaped is what the handler left.   *)

TextBytes == {"<", ">", "\"", "'", "BT", "/", "&", "=", "NUL", "a"}

MaxText == 3

RECURSIVE TextRuns(_)
TextRuns(n) ==
    IF n = 0 THEN { << >> }
    ELSE LET shorter == TextRuns(n - 1)
         IN  shorter \cup { Append(x, c) : x \in shorter, c \in TextBytes }

TextInit ==
    /\ policy = BasePolicy
    /\ api = "clean_streaming"
    /\ input = << >>
    /\ pos = 0
    /\ pc = "Text"
    /\ buf = << >>
    /\ final = FALSE
    /\ stack = << >>
    /\ out = << >>
    /\ opening_tags = 0
    /\ padding = 0
    /\ unclosed_tags = SlabNew
    /\ ret = << >>
    /\ element = << >>
    /\ handled = << >>
    /\ source \in { [run |-> r, done |-> 0, pieces |-> 0] : r \in TextRuns(MaxText) }
    /\ escaped = << >>
    /\ calls = << >>

\* The next piece of the run reaches the text handler, which escapes it.
TextPiece ==
    /\ pc = "Text"
    /\ \E k \in 1..(Len(source.run) - source.done) :
          /\ escaped' = escaped \o
                 clean_text(SubSeq(source.run, source.done + 1, source.done + k))
          /\ source' = [source EXCEPT !.done = source.done + k,
                                      !.pieces = source.pieces + 1]
    /\ UNCHANGED << policy, api, input, pos, pc, callVars, padding, ret, filterVars, pairVars >>

TextNext == TextPiece

SpecText == TextInit /\ [][TextNext]_vars

-----------------------------------------------------------------------------
(* Two clean_streaming calls on one BubbleBath, interleaved step by step.  *)
(* calls.self is the policy the calls borrow; calls.run[n] is the n-th     *)
(* call: its input, the chunks written so far, its position (pc: "Called"  *)
(* before the call's first statement, then as for one call), its padding,  *)
(* the cells it allocated (0: none yet) and its rewriter;                  *)
(* calls.cells[k] is the k-th allocated pair of cells (the counter and the *)
(* registry), which the handlers of a call reach through the references    *)
(* they captured.                                                          *)

RewriterFields == {"buf", "final", "stack", "out", "failed"}

CellFields == {"opening_tags", "unclosed_tags"}

\* Cells kept in one place for all calls.
AllocateShared(n) == 1

\* Rc::new(RefCell::new(Slab::new())) and RefCell::new(0): the cells of the
\* n-th call are allocations of its own.
Allocate(n) == n

NewCells == [f \in CellFields |-> NewCall[f]]

NewRewriter == [f \in RewriterFields |-> NewCall[f]]

\* The n-th call as one call record: its rewriter and the cells it reaches.
CallOf(n) ==
    calls.run[n].rewriter @@
    (IF calls.run[n].cells = 0 THEN NewCells ELSE calls.cells[calls.run[n].cells])

\* calls after the n-th call's step left it in run r with call record c.
After(n, r, c) ==
    [calls EXCEPT
        !.run[n]         = [r EXCEPT !.rewriter = [f \in RewriterFields |-> c[f]]],
        !.cells[r.cells] = [f \in CellFields |-> c[f]]]

PairInputs ==
    { << "<", "b", ">", "b" >>, << ">", "<" >>, << "<", "b", "r", ">" >>,
      << "<", "s", ">", "b" >> }

PairInit ==
    /\ policy \in Policies
    /\ api = "clean_streaming"
    /\ input = << >>
    /\ pos = 0
    /\ pc = "Pair"
    /\ buf = << >>
    /\ final = FALSE
    /\ stack = << >>
    /\ out = << >>
    /\ opening_tags = 0
    /\ padding = 0
    /\ unclosed_tags = SlabNew
    /\ ret = << >>
    /\ element = << >>
    /\ handled = << >>
    /\ source = << >>
    /\ escaped = << >>
    /\ \E first \in PairInputs, second \in PairInputs :
          calls = [self  |-> policy,
                   run   |-> [n \in 1..2 |->
                                [input    |-> IF n = 1 THEN first ELSE second,
                                 chunks   |-> << >>,
                                 pos      |-> 0,
                                 pc       |-> "Called",
                                 padding  |-> 0,
                                 cells    |-> 0,
                                 rewriter |-> NewRewriter]],
                   cells |-> [k \in 1..2 |-> NewCells]]

oneCallVars ==
    << policy, api, input, pos, pc, callVars, padding, ret, filterVars, textVars >>

\* The n-th call begins: it allocates its registry and its counter.
Enter(n) ==
    /\ calls.run[n].pc = "Called"
    /\ calls' = [calls EXCEPT !.run[n].pc       = "Idle",
                              !.run[n].cells    = Allocate(n),
                              !.cells[Allocate(n)] = NewCells]
    /\ UNCHANGED oneCallVars

\* The n-th call's iterator yields the next chunk: it is counted and written.
PairWriteChunk(n) ==
    LET r == calls.run[n]
        c == CallOf(n)
    IN  /\ r.pc \in {"Idle", "Streaming"}
        /\ NextToken(c.buf, c.final).kind = "none"
        /\ \E k \in 1..(Len(r.input) - r.pos) :
              LET chunk == SubSeq(r.input, r.pos + 1, r.pos + k)
              IN  calls' = After(n,
                     [r EXCEPT !.pos = r.pos + k, !.pc = "Streaming",
                               !.chunks = Append(r.chunks, chunk)],
                     [c EXCEPT !.opening_tags =
                                   count_unclosed_opening_tags(c.opening_tags, chunk),
                               !.buf = c.buf \o chunk])
        /\ UNCHANGED oneCallVars

\* The n-th call's rewriter reaches a token and calls its handler.
PairHandleToken(n) ==
    LET r   == calls.run[n]
        c   == CallOf(n)
        tok == NextToken(c.buf, c.final)
    IN  /\ r.pc \in {"Streaming", "Draining", "Finalizing"}
        /\ tok.kind # "none"
        /\ LET done == Process(policy, c, tok)
           IN  calls' = After(n,
                  [r EXCEPT !.pc = CASE done.failed = "err"   -> "Failed"
                                     [] done.failed = "panic" -> "Panicked"
                                     [] OTHER                 -> r.pc],
                  done)
        /\ UNCHANGED oneCallVars

\* The n-th call's iterator is exhausted: the counter is read for the padding.
PairLastChunk(n) ==
    LET r == calls.run[n]
        c == CallOf(n)
    IN  /\ r.pc \in {"Idle", "Streaming"}
        /\ NextToken(c.buf, c.final).kind = "none"
        /\ r.pos = Len(r.input)
        /\ calls' = After(n, [r EXCEPT !.padding = c.opening_tags, !.pc = "Draining"], c)
        /\ UNCHANGED oneCallVars

\* The n-th call writes a padding ">" or, with none left, calls end().
PairWritePad(n) ==
    LET r == calls.run[n]
        c == CallOf(n)
    IN  /\ r.pc = "Draining"
        /\ NextToken(c.buf, c.final).kind = "none"
        /\ calls' = IF r.padding > 0
                    THEN After(n, [r EXCEPT !.padding = r.padding - 1],
                               [c EXCEPT !.buf = c.buf \o << ">" >>])
                    ELSE After(n, [r EXCEPT !.pc = "Finalizing"],
                               [c EXCEPT !.final = TRUE])
        /\ UNCHANGED oneCallVars

\* The n-th call's document end handler runs and the call returns.
PairDocumentEnd(n) ==
    LET r == calls.run[n]
        c == CallOf(n)
    IN  /\ r.pc = "Finalizing"
        /\ NextToken(c.buf, c.final).kind = "none"
        /\ calls' = After(n, [r EXCEPT !.pc = "Done"], document_end_handler(c))
        /\ UNCHANGED oneCallVars

PairNext ==
    \E n \in 1..2 :
        \/ Enter(n)
        \/ PairWriteChunk(n)
        \/ PairHandleToken(n)
        \/ PairLastChunk(n)
        \/ PairWritePad(n)
        \/ PairDocumentEnd(n)

SpecPair == PairInit /\ [][PairNext]_vars

-----------------------------------------------------------------------------
(* The balancer alone: the rewriter hands a sequence of start tags and end *)
(* tags, without text, to the handlers, then the document ends.  One of   *)
(* the start tags has attributes and is written self-closing.  element is  *)
(* the sequence of the tags handled so far, each with its attributes and   *)
(* the registry key its handler took (start tag) or gave back (end tag),   *)
(* 0 when none.  pc: "Events", "AtEnd", "Failed", "Panicked".              *)

EventPolicies == {FilterPolicy, EscapeFilterPolicy}

EventTags ==
    { [name |-> n, attrs |-> << >>, self_closing |-> FALSE, can_have_content |-> TRUE] :
        n \in {TagA, TagB, TagS, TagX} }
    \cup { [name |-> TagB, attrs |-> << >>, self_closing |-> TRUE,
            can_have_content |-> TRUE],
           [name |-> TagX,
            attrs |-> << Attr(AttrHref, UrlNoSeparator), Attr(AttrTitle, << "&" >>) >>,
            self_closing |-> TRUE, can_have_content |-> TRUE] }

MaxEvents == 4

\* Slab::insert gives the key `next`; the key a handler took from the
\* registry, 0 when it took none.
KeyTaken(before, after) == IF after = before THEN 0 ELSE before.next

\* The key a handler gave back to the registry, 0 when it gave none back.
KeyGivenBack(before, after) == IF after = before THEN 0 ELSE after.next

EventsInit ==
    /\ policy \in EventPolicies
    /\ api = "clean_streaming"
    /\ input = << >>
    /\ pos = 0
    /\ pc = "Events"
    /\ buf = << >>
    /\ final = FALSE
    /\ stack = << >>
    /\ out = << >>
    /\ opening_tags = 0
    /\ padding = 0
    /\ unclosed_tags = SlabNew
    /\ ret = << >>
    /\ element = << >>
    /\ handled = << >>
    /\ source = << >>
    /\ escaped = << >>
    /\ calls = << >>

\* The rewriter reaches a start tag and calls the element handler.
StartTagArrives ==
    /\ pc = "Events"
    /\ Len(element) < MaxEvents
    /\ \E el \in EventTags :
          LET c == OnStartTag(policy, Call, StartTagOf(el))
          IN  /\ element' = Append(element,
                     [kind |-> "start", name |-> el.name, attrs |-> el.attrs,
                      self_closing |-> el.self_closing,
                      key |-> KeyTaken(unclosed_tags, c.unclosed_tags)])
              /\ Becomes(c)
              /\ pc' = IF c.failed = "err" THEN "Failed" ELSE pc
    /\ UNCHANGED << policy, api, input, pos, padding, ret, handled, textVars, pairVars >>

\* The rewriter reaches an end tag; the closures of the element it closes run.
EndTagArrives ==
    /\ pc = "Events"
    /\ Len(element) < MaxEvents
    /\ \E n \in {TagA, TagB, TagS, TagX} :
          LET c == OnEndTag(policy, Call, EndTagOf([name |-> n]))
          IN  /\ element' = Append(element,
                     [kind |-> "end", name |-> n, attrs |-> << >>, self_closing |-> FALSE,
                      key |-> KeyGivenBack(unclosed_tags, c.unclosed_tags)])
              /\ Becomes(c)
              /\ pc' = IF c.failed = "panic" THEN "Panicked" ELSE pc
    /\ UNCHANGED << policy, api, input, pos, padding, ret, handled, textVars, pairVars >>

\* The document ends: the document end handler appends the closers.
DocumentEnds ==
    /\ pc = "Events"
    /\ Becomes(document_end_handler(Call))
    /\ pc' = "AtEnd"
    /\ UNCHANGED << policy, api, input, pos, padding, ret, filterVars, textVars, pairVars >>

EventsNext ==
    \/ StartTagArrives
    \/ EndTagArrives
    \/ DocumentEnds

SpecEvents == EventsInit /\ [][EventsNext]_vars

-----------------------------------------------------------------------------
(* Reading an output back: the tokens an HTML lexer finds in it. *)

RECURSIVE Tokens(_)
Tokens(bytes) ==
    IF bytes = << >> THEN << >>
    ELSE LET tok == NextToken(bytes, TRUE)
         IN  << tok >> \o Tokens(Drop(bytes, tok.len))

\* Scanning the tokens ts[1..i] from the last one backwards: every start tag
\* called name (the self-closing ones too, if countSelfClosing) finds an end
\* tag called name after it that no other start tag has taken; avail is the
\* number of end tags seen and not yet taken.
RECURSIVE EveryStartHasEnd(_, _, _, _, _)
EveryStartHasEnd(ts, name, countSelfClosing, i, avail) ==
    IF i = 0 THEN TRUE
    ELSE IF ts[i].kind = "end" /\ ts[i].name = name
    THEN EveryStartHasEnd(ts, name, countSelfClosing, i - 1, avail + 1)
    ELSE IF /\ ts[i].kind = "start"
            /\ ts[i].name = name
            /\ (countSelfClosing \/ ~ts[i].self_closing)
    THEN avail > 0 /\ EveryStartHasEnd(ts, name, countSelfClosing, i - 1, avail - 1)
    ELSE EveryStartHasEnd(ts, name, countSelfClosing, i - 1, avail)

Balanced(bytes, names, countSelfClosing) ==
    LET ts == Tokens(bytes)
    IN  \A name \in names : EveryStartHasEnd(ts, name, countSelfClosing, Len(ts), 0)

HasToken(bytes, kind, name) ==
    LET ts == Tokens(bytes)
    IN  \E i \in 1..Len(ts) : ts[i].kind = kind /\ ts[i].name = name

-----------------------------------------------------------------------------
(* C1: streaming equivalence.  Whatever the chunks the input arrived in,   *)
(* when the call ends the sink holds the bytes it holds when the whole     *)
(* input is given as one chunk.                                            *)
C1_StreamingEquivalence ==
    pc \in {"Done", "Failed"} => out = clean_streaming(policy, << input >>).out

C3_NoDisallowedTag ==
    pc = "Done" =>
        LET ts == Tokens(out)
        IN  \A i \in 1..Len(ts) :
                ts[i].kind \in {"start", "end"} => ts[i].name \in policy.allowed_tags

(* C4: idempotence.  With the policy in its default shape, cleaning the    *)
(* output of a successful clean again returns that output unchanged.       *)
C4_Idempotent ==
    (/\ pc = "Done"
     /\ api = "clean"
     /\ ~policy.preserve_escaped
     /\ DOMAIN policy.set_tag_attributes = {})
    => clean(policy, out) = [ok |-> TRUE, value |-> out]

(* What the element handler did to the start tag it was handed, in the     *)
(* element filter's own specification.                                     *)
KeptTag == handled # << >> /\ ~handled[1].err /\ handled[1].action = "keep"

EmittedAttributes == handled[1].attrs

EmittedStartTag ==
    Serialize(element[1].name, EmittedAttributes, element[1].self_closing)

StartTagWritten == Take(out, Len(EmittedStartTag)) = EmittedStartTag

\* value is scheme://rest with scheme one of the policy's allowed schemes.
SchemeAllowed(p, value) ==
    \E k \in 1..Len(value) :
        /\ k + 2 <= Len(value)
        /\ SubSeq(value, k, k + 2) = << ":", "/", "/" >>
        /\ Take(value, k - 1) \in p.allowed_url_schemes

(* C5: URL safety.  On every allowed start tag that is written, each       *)
(* attribute registered as URL-bearing for the tag is absent or has a      *)
(* value scheme://rest with an allowed scheme, under every policy, one     *)
(* that injects a value into a URL-bearing attribute included.             *)
C5_UrlSafety ==
    KeptTag =>
        /\ StartTagWritten
        /\ \A n \in CleanUrlAttributes(policy, element[1].name) :
              has_attribute(EmittedAttributes, n)
              => SchemeAllowed(policy, get_attribute(EmittedAttributes, n))

\* An a tag arrived with an href under the policy that sets href to a value
\* that is no absolute URL; the tag was written without href.
C5_Witness ==
    /\ KeptTag
    /\ policy = InjectBadUrlPolicy
    /\ element[1].name = TagA
    /\ has_attribute(element[1].attrs, AttrHref)
    /\ ~has_attribute(EmittedAttributes, AttrHref)
    /\ StartTagWritten

(* C6: all-or-nothing.  As claimed: in no state has the call failed while  *)
(* its caller holds sanitized bytes, be it the value clean returned or     *)
(* what the sink of clean_streaming received.                              *)
Received ==
    IF api = "clean" THEN (IF ret = << >> THEN << >> ELSE ret[1].value) ELSE out

C6_NoOutputOnFailure == pc = "Failed" => Received = << >>

(* C6 as amended: clean returns nothing before the call ends; when the     *)
(* call failed it returns the error and none of the bytes accumulated so   *)
(* far, and when it succeeded it returns all the bytes the rewriter wrote. *)
C6_CleanAllOrNothing ==
    api = "clean" =>
        /\ pc = "Failed" => ret = << [ok |-> FALSE, value |-> << >>] >>
        /\ pc = "Done" => ret = << [ok |-> TRUE, value |-> out] >>
        /\ pc \notin {"Failed", "Done"} => ret = << >>

\* clean fails after its accumulator has received sanitized bytes.
C6_Witness == api = "clean" /\ pc = "Failed" /\ out # << >>

(* C7: attribute injection is forced.  As claimed: the start tag written   *)
(* for an allowed tag carries every (name, value) pair set for the tag,    *)
(* with exactly that value, whatever the tag's own attributes and the      *)
(* policy's other fields are.                                              *)
C7_InjectionForced ==
    KeptTag =>
        \A n \in DOMAIN SetTagAttributes(policy, element[1].name) :
            /\ has_attribute(EmittedAttributes, n)
            /\ get_attribute(EmittedAttributes, n)
                   = SetTagAttributes(policy, element[1].name)[n]

(* C7 as amended: the start tag written for an allowed tag carries every   *)
(* (name, value) pair set for the tag with exactly that value, except a    *)
(* pair whose name is URL-bearing for the tag and whose value is not       *)
(* scheme://rest with an allowed scheme: that attribute is absent.         *)
C7_InjectionThenUrlCleaning ==
    KeptTag =>
        /\ StartTagWritten
        /\ \A n \in DOMAIN SetTagAttributes(policy, element[1].name) :
              LET value == SetTagAttributes(policy, element[1].name)[n]
              IN  IF /\ n \in CleanUrlAttributes(policy, element[1].name)
                     /\ ~SchemeAllowed(policy, value)
                  THEN ~has_attribute(EmittedAttributes, n)
                  ELSE /\ has_attribute(EmittedAttributes, n)
                       /\ get_attribute(EmittedAttributes, n) = value

\* An a tag arrived with an allowed href of its own under the policy that
\* sets href to another URL, and was written with the policy's value.
C7_Witness ==
    /\ KeptTag
    /\ policy = InjectGoodUrlPolicy
    /\ element[1].name = TagA
    /\ has_attribute(element[1].attrs, AttrHref)
    /\ get_attribute(element[1].attrs, AttrHref) = UrlGood
    /\ get_attribute(EmittedAttributes, AttrHref) = UrlOther
    /\ StartTagWritten

Listed(p, tag_name, n) ==
    \/ n \in p.allowed_generic_attributes
    \/ /\ tag_name \in DOMAIN p.allowed_tag_attributes
       /\ n \in p.allowed_tag_attributes[tag_name]

(* C8: attribute filtering.  Of the attributes an allowed tag arrived      *)
(* with, one whose name is in neither the generic allow-list nor the       *)
(* tag's own is absent from the start tag written unless the name is set   *)
(* for the tag, and one whose name is in either list and is neither        *)
(* cleaned as a URL nor set for the tag is written with the value it had.  *)
C8_AttributeFiltering ==
    KeptTag =>
        /\ StartTagWritten
        /\ \A i \in 1..Len(element[1].attrs) :
              LET a        == element[1].attrs[i]
                  listed   == Listed(policy, element[1].name, a.name)
                  set      == a.name \in DOMAIN SetTagAttributes(policy, element[1].name)
                  cleaned  == a.name \in CleanUrlAttributes(policy, element[1].name)
              IN  /\ (~listed /\ ~set) => ~has_attribute(EmittedAttributes, a.name)
                  /\ (listed /\ ~cleaned /\ ~set)
                     => /\ has_attribute(EmittedAttributes, a.name)
                        /\ get_attribute(EmittedAttributes, a.name) = a.value

\* A b tag arrived with an onclick and a title and was written with the
\* title alone.
C8_Witness ==
    /\ KeptTag
    /\ policy = FilterPolicy
    /\ element[1].name = TagB
    /\ element[1].attrs = << Attr(AttrOnclick, << "e" >>), Attr(AttrTitle, << "t" >>) >>
    /\ EmittedAttributes = << Attr(AttrTitle, << "t" >>) >>
    /\ StartTagWritten

NoAngle(bytes) == Count(bytes, "<") = 0 /\ Count(bytes, ">") = 0

Entity(chr) ==
    CASE chr = "<"   -> << "&", "l", "t", ";" >>
      [] chr = ">"   -> << "&", "g", "t", ";" >>
      [] chr = "\""  -> << "&", "q", "u", "o", "t", ";" >>
      [] chr = "'"   -> << "&", "a", "p", "o", "s", ";" >>
      [] chr = "BT"  -> << "&", "g", "r", "a", "v", "e", ";" >>
      [] chr = "/"   -> << "&", "#", "4", "7", ";" >>
      [] chr = "&"   -> << "&", "a", "m", "p", ";" >>
      [] chr = "="   -> << "&", "#", "6", "1", ";" >>
      [] chr = "NUL" -> << "&", "#", "6", "5", "5", "3", "3", ";" >>
      [] OTHER       -> << chr >>

Handed == SubSeq(source.run, 1, source.done)

(* C10: text escaping.  What the text handler has left of a text run is    *)
(* the character-by-character image of the part handed to it under the     *)
(* fixed table; it holds none of < > " ' backtick / = NUL; and it is what  *)
(* escaping that part whole gives, in however many pieces it was handed.   *)
C10_TextEscaping ==
    /\ escaped = Flatten([i \in 1..Len(Handed) |-> Entity(Handed[i])])
    /\ \A i \in 1..Len(escaped) :
          escaped[i] \notin {"<", ">", "\"", "'", "BT", "/", "=", "NUL"}
    /\ escaped = clean_text(Handed)

\* The run </& was handed over in more than one piece, all of it.
C10_Witness ==
    /\ source.run = << "<", "/", "&" >>
    /\ source.done = 3
    /\ source.pieces > 1
    /\ escaped = << "&", "l", "t", ";", "&", "#", "4", "7", ";", "&", "a", "m", "p", ";" >>

(* C11: call isolation.  When two calls on one policy are interleaved step *)
(* by step, the two calls hold different cells (registry and counter), the *)
(* policy stays the one they were called with, and each call is, between   *)
(* chunks and when it ends, in the state and with the output it reaches    *)
(* from the same chunks when run alone.                                    *)
C11_CallIsolation ==
    /\ calls.self = policy
    /\ (calls.run[1].cells # 0 /\ calls.run[2].cells # 0)
       => calls.run[1].cells # calls.run[2].cells
    /\ \A n \in 1..2 :
          LET r == calls.run[n]
              c == CallOf(n)
          IN  /\ (r.pc = "Streaming" /\ NextToken(c.buf, c.final).kind = "none")
                 => c = WriteChunks(policy, NewCall, r.chunks)
              /\ r.pc = "Done" => c = clean_streaming(policy, r.chunks)
              /\ r.pc = "Failed" => c.out = clean_streaming(policy, r.chunks).out

\* The first call has ended with <b>b closed by a closer while the second,
\* begun before that, is between chunks with a b in its registry.
C11_Witness ==
    /\ calls.run[1].pc = "Done"
    /\ CallOf(1).out = << "<", "b", ">", "b", "<", "/", "b", ">" >>
    /\ calls.run[2].pc = "Streaming"
    /\ calls.run[2].pos < Len(calls.run[2].input)
    /\ SlabIter(CallOf(2).unclosed_tags) = << TagB >>
    /\ SlabIter(CallOf(1).unclosed_tags) = << TagB >>

OccupiedKeys ==
    { k \in 1..Len(unclosed_tags.slots) : unclosed_tags.slots[k].occupied }

\* The place in element of the start tag whose entry is at key k: the last
\* start tag that took k.
AcceptedAt(k) ==
    CHOOSE i \in 1..Len(element) :
        /\ element[i].kind = "start" /\ element[i].key = k
        /\ \A j \in (i + 1)..Len(element) :
              ~(element[j].kind = "start" /\ element[j].key = k)

\* The names in the registry, the one accepted first first.
RECURSIVE ByAcceptance(_)
ByAcceptance(keys) ==
    IF keys = {} THEN << >>
    ELSE LET k == CHOOSE x \in keys : \A y \in keys : AcceptedAt(x) <= AcceptedAt(y)
         IN  << unclosed_tags.slots[k].name >> \o ByAcceptance(keys \ {k})

IncompleteTag(b) ==
    /\ Len(b) >= 2
    /\ b[1] = "<"
    /\ \/ b[2] \in Alpha
       \/ Len(b) >= 3 /\ b[2] = "/" /\ b[3] \in Alpha
    /\ Count(b, ">") = 0

(* C13: padding flushes an incomplete tag.  For every input and chunking,  *)
(* when the last chunk has been written and the rewriter still holds a tag *)
(* without its ">", the counter read for the padding is at least 1, and    *)
(* end() is never called with such a tag held.                             *)
C13_PaddingFlushesTag ==
    /\ (pc = "Draining" /\ IncompleteTag(buf)) => padding >= 1
    /\ pc = "Finalizing" => ~IncompleteTag(buf)

\* Every tag and every comment of the bytes has its ">", no tag holds a
\* second "<", and the rest is text.
RECURSIVE WellTerminated(_)
WellTerminated(bytes) ==
    \/ bytes = << >>
    \/ LET tok == NextToken(bytes, TRUE)
       IN  /\ tok.kind \in {"text", "comment", "start", "end"}
           /\ tok.kind # "text" => bytes[tok.len] = ">"
           /\ tok.kind \in {"start", "end"} => Count(Take(bytes, tok.len), "<") = 1
           /\ WellTerminated(Drop(bytes, tok.len))

(* C14: angle brackets in text and comments are not counted toward the     *)
(* padding.  For every input whose tags and comments are all terminated,   *)
(* so that every other "<" and ">" is inside text, the counter read for    *)
(* the padding after the last chunk is 0.                                  *)
C14_TextNotCounted ==
    (pc = "Draining" /\ WellTerminated(input)) => padding = 0

\* The phases of one call in the order of clean_streaming's statements; a
\* call that returned an error or panicked has ended.
Phase(p) ==
    CASE p = "Idle"       -> 0
      [] p = "Streaming"  -> 1
      [] p = "Draining"   -> 2
      [] p = "Finalizing" -> 3
      [] OTHER            -> 4

(* C15: phase order of one call.  Every step of a call keeps or advances   *)
(* its phase (Idle, Streaming, Draining, Finalizing, Done); a chunk is     *)
(* written only in Idle or Streaming; a padding ">" is written only in     *)
(* Draining, after every chunk was written; end() is called only after all *)
(* the padding was written; the closers are appended only by the step from *)
(* Finalizing to Done; and a call that is Done takes no further step.      *)
C15_PhaseOrder ==
    [][/\ Phase(pc') >= Phase(pc)
       /\ pos' # pos => (pc \in {"Idle", "Streaming"} /\ pc' = "Streaming")
       /\ padding' < padding => (pc = "Draining" /\ pc' = "Draining" /\ pos = Len(input))
       /\ (final' /\ ~final) => (pc = "Draining" /\ padding = 0 /\ pos = Len(input))
       /\ pc' = "Done" => /\ pc = "Finalizing"
                          /\ final
                          /\ out' = out \o Closers(SlabIter(unclosed_tags))
       /\ (pc' # "Done" /\ NextToken(buf, final).kind = "none") => out' = out
       /\ pc \notin {"Done", "Failed", "Panicked"}]_vars

\* The call on <b is Done: the tag was completed by a padding ">" and
\* closed by a closer.
C15_Witness ==
    /\ pc = "Done"
    /\ input = << "<", "b" >>
    /\ out = << "<", "b", ">", "<", "/", "b", ">" >>

\* The policy sets an attribute with an invalid name on the tag.
Misconfigured(p, tag_name) ==
    \E n \in DOMAIN SetTagAttributes(p, tag_name) : ~ValidAttributeName(n)

\* The input holds a start tag of an allowed tag on which the policy sets an
\* attribute with an invalid name; removed says whether a tag that is also
\* a remove-content tag counts.
HoldsMisconfiguredTag(p, bytes, removed) ==
    LET ts == Tokens(bytes)
    IN  \E i \in 1..Len(ts) :
            /\ ts[i].kind = "start"
            /\ ts[i].name \in p.allowed_tags
            /\ removed \/ ts[i].name \notin p.remove_content_tags
            /\ Misconfigured(p, ts[i].name)

(* C16: a configuration error aborts the call.  As claimed: a call whose   *)
(* input holds a start tag of an allowed tag for which the policy sets an  *)
(* attribute with an invalid name never ends successfully, and once the    *)
(* call has failed it takes no further step: no chunk, no padding, no      *)
(* end(), no closer.                                                       *)
C16_ConfigErrorAborts ==
    [][/\ pc' = "Done" => ~HoldsMisconfiguredTag(policy, input, TRUE)
       /\ pc # "Failed"]_vars

(* C16 as amended: the same for an allowed tag that is not also a          *)
(* remove-content tag; a failed call has not called end() and takes no     *)
(* further step.                                                           *)
C16_ConfigErrorAbortsUnlessRemoved ==
    [][/\ pc' = "Done" => ~HoldsMisconfiguredTag(policy, input, FALSE)
       /\ pc' = "Failed" => (~final' /\ HoldsMisconfiguredTag(policy, input, FALSE))
       /\ pc # "Failed"]_vars

\* The call failed on <br> with <b> written and registered, a chunk not yet
\* written and end() not called.
C16_Witness ==
    /\ pc = "Failed"
    /\ policy = StrictPolicy
    /\ input = << "<", "b", ">", "<", "b", "r", ">", "<", "b", ">" >>
    /\ pos < Len(input)
    /\ out = << "<", "b", ">" >>
    /\ SlabIter(unclosed_tags) = << TagB >>
    /\ ~final

\* The literal text of a start tag: `<`, the name, each attribute as
\* ` name="value"` in order, then ` />` if self-closing, else `>`.
LiteralStartTag(e) ==
    << "<" >> \o e.name
    \o Flatten([i \in 1..Len(e.attrs) |->
                   << " " >> \o e.attrs[i].name \o << "=", "\"" >>
                   \o e.attrs[i].value \o << "\"" >>])
    \o (IF e.self_closing THEN << " ", "/", ">" >> ELSE << ">" >>)

LiteralEndTag(name) == << "<", "/" >> \o name \o << ">" >>

\* The policy escapes the tags of this name.
EscapedTag(p, name) ==
    /\ p.preserve_escaped
    /\ name \notin p.allowed_tags
    /\ name \notin p.remove_content_tags

\* The call as it would stand with no escaped element open.
RECURSIVE NotEscaped(_)
NotEscaped(stk) ==
    IF stk = << >> THEN << >>
    ELSE (IF Escapes(Head(stk).handlers) THEN << >> ELSE << Head(stk) >>)
         \o NotEscaped(Tail(stk))

WithoutEscaped == [Call EXCEPT !.stack = NotEscaped(stack)]

\* One handled tag in escape mode.  An escaped start tag outside removed
\* content is written as escaped literal text and leaves the registry alone;
\* the end tag matching an escaped element is written as escaped literal
\* text always, or, with onlyIfNotSelfClosing, exactly when the start tag was
\* not self-closing; every other tag has the effect it would have with no
\* escaped element open.
EscapeModeStep(onlyIfNotSelfClosing) ==
    (element' # element /\ policy.preserve_escaped /\ pc' = "Events") =>
        LET e == element'[Len(element')]
            i == Innermost(stack, e.name)
        IN  /\ (e.kind = "start" /\ EscapedTag(policy, e.name) /\ ~Removing(stack)) =>
                   /\ out' = out \o EscapeAsText(LiteralStartTag(e))
                   /\ unclosed_tags' = unclosed_tags
            /\ (/\ e.kind = "end" /\ EscapedTag(policy, e.name)
                /\ i # 0 /\ ~Removing(Take(stack, i))) =>
                   /\ IF onlyIfNotSelfClosing
                      THEN (out' = out \o EscapeAsText(LiteralEndTag(e.name)))
                               <=> ~stack[i].self_closing
                      ELSE out' = out \o EscapeAsText(LiteralEndTag(e.name))
                   /\ unclosed_tags' = unclosed_tags
            /\ ~EscapedTag(policy, e.name) =>
                   LET c == IF e.kind = "start"
                            THEN OnStartTag(policy, WithoutEscaped, StartTagOf(e))
                            ELSE OnEndTag(policy, WithoutEscaped, EndTagOf(e))
                   IN  out' = c.out /\ unclosed_tags' = c.unclosed_tags

(* C17: escape mode.  With preserve_escaped set, a start tag that is       *)
(* neither allowed nor a remove-content tag is written as the literal text *)
(* `<name attr="value"... >` (` />` if self-closing), its matching end tag *)
(* is written as the literal text `</name>` exactly when the start tag was *)
(* not self-closing, the element never enters the registry and the tags    *)
(* inside it are handled as they are outside it.                           *)
C17_EscapeMode == [][EscapeModeStep(TRUE)]_vars

(* C17 as amended: the matching end tag of an escaped element that can     *)
(* have content is written as literal text whether or not the start tag    *)
(* was written self-closing; the rest as claimed.                          *)
C17_EscapeModeAnyEndTag == [][EscapeModeStep(FALSE)]_vars

\* <x href="js:x" title="&"/>, <b>, </b>, </x> were handled in escape mode.
C17_Witness ==
    /\ pc = "Events"
    /\ policy = EscapeFilterPolicy
    /\ Len(element) = 4
    /\ element[1].name = TagX /\ element[1].self_closing
    /\ element[4].kind = "end" /\ element[4].name = TagX
    /\ out = << "&", "l", "t", ";", "x", " ", "h", "r", "e", "f", "=", "\"",
                "j", "s", ":", "x", "\"", " ", "t", "i", "t", "l", "e", "=", "\"",
                "&", "a", "m", "p", ";", "\"", " ", "/", "&", "g", "t", ";",
                "<", "b", ">", "<", "/", "b", ">",
                "&", "l", "t", ";", "/", "x", "&", "g", "t", ";" >>
    /\ SlabIter(unclosed_tags) = << >>

\* The value has the form scheme://rest, scheme being what precedes the first
\* "://", and the policy allows that scheme, compared as supplied.
ValidUrl(p, value) ==
    \E k \in 1..Len(value) :
        /\ k + 2 <= Len(value)
        /\ SubSeq(value, k, k + 2) = << ":", "/", "/" >>
        /\ \A j \in 1..(k - 1) : SubSeq(value, j, j + 2) # << ":", "/", "/" >>
        /\ Take(value, k - 1) \in p.allowed_url_schemes

\* The attributes of the handled element when URL validation starts: after
\* attribute filtering and injection.
BeforeUrlValidation ==
    LET el     == element[1]
        to_set == SetTagAttributes(policy, el.name)
    IN  SetAttributes(clean_attributes(policy, el.name, el.attrs), to_set, DOMAIN to_set)

(* C18: URL validation decision.  For an allowed tag, the attributes after *)
(* URL validation are those before it, in order and unchanged, without     *)
(* the URL-bearing attributes of the tag whose value is not scheme://rest  *)
(* with the part before the first `://` an allowed scheme, compared        *)
(* case-sensitively; an absent attribute stays absent.                     *)
C18_UrlDecision ==
    (pc \in {"Open", "Closed", "Filtered"} /\ handled[1].action = "keep") =>
        LET urls == CleanUrlAttributes(policy, element[1].name)
        IN  handled[1].attrs =
                SelectSeq(BeforeUrlValidation,
                          LAMBDA a : a.name \in urls => ValidUrl(policy, a.value))

\* <a href="HTTP://x" title="http://x"> was handled: the href with the scheme
\* in upper case was removed, the title, not URL-bearing for a, was kept.
C18_Witness ==
    /\ pc = "Open"
    /\ policy = FilterPolicy
    /\ element[1].name = TagA
    /\ element[1].attrs = << Attr(AttrHref, UrlUpperCase), Attr(AttrTitle, UrlGood) >>
    /\ handled[1].attrs = << Attr(AttrTitle, UrlGood), Attr(AttrRel, NoReferrer) >>

(* C19: the padding does not depend on the chunk boundaries.  When the     *)
(* last chunk has been written, the counter read for the number of `>` to  *)
(* append is the one the same input leaves when it is written as a single  *)
(* chunk, whatever the chunks were.                                        *)
C19_PaddingIgnoresChunking ==
    [][(pc # "Draining" /\ pc' = "Draining") =>
           LET once == WriteChunks(policy, NewCall, << input >>)
           IN  once.failed = "no" => padding' = once.opening_tags]_vars

\* The keys the end-tag closures of an open element remove from the registry.
UncloseKeys(handlers) ==
    { handlers[i].key : i \in { j \in 1..Len(handlers) : handlers[j].kind = "unclose" } }

\* What a registry holds at key k: the name in a one-element sequence, the
\* empty sequence when the key is vacant or was never used.
EntryAt(slab, k) ==
    IF SlabContains(slab, k) THEN << slab.slots[k].name >> ELSE << >>

\* The start tags handled so far that took key k and whose end-tag closure
\* has not given it back.
Owners(k) ==
    { i \in 1..Len(element) :
        /\ element[i].kind = "start" /\ element[i].key = k
        /\ \A j \in (i + 1)..Len(element) :
              ~(element[j].kind = "end" /\ element[j].key = k) }

\* Every occupied key belongs to exactly one accepted start tag, not written
\* self-closing, whose closure has not run, and holds its name; no other
\* start tag owns a key; a key was taken again only after it was given back;
\* the closures of the open elements point at occupied entries of their own
\* name, no two at the same one; no closure has panicked.
RegistryValid ==
    /\ pc # "Panicked"
    /\ \A k \in OccupiedKeys :
          /\ Cardinality(Owners(k)) = 1
          /\ \A i \in Owners(k) :
                /\ element[i].name = unclosed_tags.slots[k].name
                /\ element[i].name \in policy.allowed_tags
                /\ element[i].name \notin policy.remove_content_tags
                /\ ~element[i].self_closing
    /\ \A i \in 1..Len(element) :
          (element[i].kind = "start" /\ element[i].key # 0 /\ i \in Owners(element[i].key))
              => element[i].key \in OccupiedKeys
    /\ \A i \in 1..Len(element) : \A j \in (i + 1)..Len(element) :
          (/\ element[i].kind = "start" /\ element[j].kind = "start"
           /\ element[i].key # 0 /\ element[i].key = element[j].key)
              => \E m \in (i + 1)..(j - 1) :
                    element[m].kind = "end" /\ element[m].key = element[i].key
    /\ \A s \in 1..Len(stack) : \A k \in UncloseKeys(stack[s].handlers) :
          /\ EntryAt(unclosed_tags, k) = << stack[s].name >>
          /\ \A t \in 1..Len(stack) :
                t # s => k \notin UncloseKeys(stack[t].handlers)

\* One handled tag: an end tag vacates the keys of the closures of the
\* element it closes, which were occupied by that element's name, and
\* changes no other entry; a start tag that takes a key takes a vacant one
\* and changes no other entry.
RegistryStep ==
    (element' # element) =>
        LET e     == element'[Len(element')]
            i     == Innermost(stack, e.name)
            gone  == IF e.kind = "end" /\ i # 0
                     THEN UncloseKeys(stack[i].handlers) ELSE {}
            taken == IF e.kind = "start" /\ e.key # 0 THEN {e.key} ELSE {}
            keys  == 1..(Len(unclosed_tags.slots) + 1)
        IN  /\ pc' # "Panicked"
            /\ \A k \in gone :
                  /\ EntryAt(unclosed_tags, k) = << e.name >>
                  /\ EntryAt(unclosed_tags', k) = << >>
                  /\ e.key = k
            /\ \A k \in taken :
                  /\ EntryAt(unclosed_tags, k) = << >>
                  /\ EntryAt(unclosed_tags', k) = << e.name >>
            /\ \A k \in keys \ (gone \cup taken) :
                  EntryAt(unclosed_tags', k) = EntryAt(unclosed_tags, k)

(* C20: registry handles stay valid.  In every reachable state each        *)
(* occupied key of the registry belongs to exactly one accepted element    *)
(* whose end tag has not been handled, a key is taken again only after its *)
(* entry was removed, and an end-tag closure that runs finds its key       *)
(* occupied by its element's name and removes that entry and no other.     *)
C20_HandlesValid == [][RegistryValid /\ RegistryValid' /\ RegistryStep]_vars

\* <a>, </a>, <b> were handled: b's entry has the key a's entry had, and b
\* is open with a closure for that key.
C20_Witness ==
    /\ pc = "Events"
    /\ Len(element) = 3
    /\ element[1].kind = "start" /\ element[1].name = TagA /\ element[1].key # 0
    /\ element[2].kind = "end" /\ element[2].key = element[1].key
    /\ element[3].kind = "start" /\ element[3].name = TagB
    /\ element[3].key = element[1].key
    /\ EntryAt(unclosed_tags, element[3].key) = << TagB >>
    /\ UncloseKeys(stack[1].handlers) = {element[3].key}

(* C21: no registry entry for an element without an end-tag callback.  At  *)
(* no point of a call does the registry hold the name of a void element,   *)
(* and the output of a call that succeeded holds no end tag of a void      *)
(* element (no input here holds one, so such an end tag is a synthetic     *)
(* closer).                                                                *)
C21_NoEntryForVoidElement ==
    /\ \A k \in 1..Len(unclosed_tags.slots) :
          unclosed_tags.slots[k].occupied => unclosed_tags.slots[k].name \notin VoidTags
    /\ pc = "Done" =>
          LET ts == Tokens(out)
          IN  \A i \in 1..Len(ts) : ~(ts[i].kind = "end" /\ ts[i].name \in VoidTags)

\* The number of tokens of the kind and name among ts.
CountTokens(ts, kind, name) ==
    Cardinality({ i \in 1..Len(ts) : ts[i].kind = kind /\ ts[i].name = name })

(* C22: synthetic closers only close tags that are open in the output.     *)
(* When a call has succeeded, every closer appended at document end names  *)
(* an allowed tag, and for every name the closers of that name are no more *)
(* than the start tags of that name written before them that no end tag    *)
(* written before them closes; so there is no closer for an element inside *)
(* a removed element nor for one whose end tag was written.                *)
C22_ClosersCloseOpenTags ==
    pc = "Done" =>
        LET names == SlabIter(unclosed_tags)
            ts    == Tokens(Take(out, Len(out) - Len(Closers(names))))
        IN  \A i \in 1..Len(names) :
                /\ names[i] \in policy.allowed_tags
                /\ Cardinality({ j \in 1..Len(names) : names[j] = names[i] })
                       + CountTokens(ts, "end", names[i])
                   <= CountTokens(ts, "start", names[i])

=============================================================================
